---- MODULE Spec2Model ----
(***************************************************************************)
(* Model of src/app.tsx: the session token, the calendar client, the      *)
(* WhatsApp helpers and the App component's handlers.  Every invocation of *)
(* an async handler is a chain (an activation with its closure and its     *)
(* position); every awaited platform or HTTP operation is a record in      *)
(* inflight until the environment resolves it.  A chain's record also logs *)
(* the alerts, console warnings and opened URLs of that invocation.        *)
(***************************************************************************)
EXTENDS Integers, Sequences, FiniteSets, TLC

VARIABLES
    clientId,       \* GOOGLE_CLIENT_ID_WEB (app.tsx:14), fixed at start-up
    ACCESS_TOKEN,   \* module-level token (app.tsx:17)
    logged,         \* useState(false)            (app.tsx:85)
    items,          \* useState({}) : the agenda  (app.tsx:86)
    loadingEvents,  \* useState(false)            (app.tsx:87)
    title,          \* form: title                (app.tsx:90)
    date,           \* form: date                 (app.tsx:91)
    location,       \* form: location             (app.tsx:94)
    phone,          \* form: phone                (app.tsx:95)
    contactsCount,  \* useState(0)                (app.tsx:98)
    chains,         \* handler invocations, in the order they were started
    inflight,       \* awaited operations not yet resolved
    calendar,       \* the provider's primary calendar (external)
    sent            \* HTTP requests issued so far, per method

vars == <<clientId, ACCESS_TOKEN, logged, items, loadingEvents, title, date,
          location, phone, contactsCount, chains, inflight, calendar, sent>>

-----------------------------------------------------------------------------
(* Bounds and input sets *)

\* handler invocations (button presses and direct calls) in one behaviour
MaxChains == 3

NoToken == "null"
Tokens == {"T1"}
ClientIds == {"", "cid.apps.googleusercontent.com"}

\* titles are character sequences so that trim() has something to do
Today == "2024-06-11"
ValidDates == {"2024-06-10", "2024-06-11", "2024-06-12"}
\* the htmlLink the provider assigns to a created event
Links == {"https://calendar/evt"}
\* how many contacts the device holds when they are read
ContactCounts == {1, 2}

\* what the user may have typed into the form: title, date, location, phone
\* (title and location are character sequences: both are trimmed)
Cafe == <<"C", "a", "f", "e">>
Form(t, d, l, ph) == [title |-> t, date |-> d, location |-> l, phone |-> ph]
Forms == {Form(<<>>, Today, <<>>, ""),
          Form(<<" ">>, Today, <<>>, ""),
          Form(<<" ", "C", " ">>, Today, Cafe \o <<" ">>, "5491122334455"),
          Form(<<"C">>, "pronto", <<>>, "")}

\* messages of the failures the environment can raise
HttpErrors == {"Network Error"}
AuthErrors == {"AuthSession failed"}
LinkErrors == {"Unable to open URL"}
ContactsErrors == {"Contacts unavailable"}

NoTime == [day |-> "", time |-> ""]
NoEvt == [htmlLink |-> ""]
NoBody == [summary |-> <<>>, location |-> <<>>,
           start |-> [dateTime |-> NoTime, date |-> ""],
           end |-> [dateTime |-> NoTime, date |-> ""]]
NoArg == [title |-> <<>>, start |-> <<>>, end |-> <<>>, location |-> <<>>,
          link |-> ""]
NoResp == [status |-> "pending", hasItems |-> FALSE, items |-> <<>>, message |-> ""]

\* events the calendar may hold before the app starts
Lunch == [summary |-> <<"L", "u", "n", "c", "h">>, location |-> <<>>,
          start |-> [dateTime |-> [day |-> "2024-06-10", time |-> "12:00"], date |-> ""],
          end |-> [dateTime |-> [day |-> "2024-06-10", time |-> "13:00"], date |-> ""]]
Holiday == [summary |-> <<>>, location |-> <<>>,
            start |-> [dateTime |-> NoTime, date |-> "2024-06-10"],
            end |-> [dateTime |-> NoTime, date |-> "2024-06-11"]]
InitCalendar == <<Lunch, Holiday>>

-----------------------------------------------------------------------------
(* Pure helpers *)

\* a || b on strings: the empty string is falsy
OrElse(a, b) == IF a # "" THEN a ELSE b

IsSpace(ch) == ch = " "

RECURSIVE TrimStart(_)
TrimStart(s) ==
    IF s = <<>> THEN <<>>
    ELSE IF IsSpace(Head(s)) THEN TrimStart(Tail(s)) ELSE s

RECURSIVE TrimEnd(_)
TrimEnd(s) ==
    IF s = <<>> THEN <<>>
    ELSE IF IsSpace(s[Len(s)]) THEN TrimEnd(SubSeq(s, 1, Len(s) - 1)) ELSE s

\* String.prototype.trim
Trim(s) == TrimEnd(TrimStart(s))

\* dayjs(`${date} ${time}`).toISOString(): a RangeError for an unparsable date
IsValidDate(d) == d \in ValidDates
ToISOString(d, t) == [day |-> d, time |-> t]

\* the form's start and end fields keep their initial values (app.tsx:92-93)
start == "10:00"
end == "11:00"

\* a header built without the token check
authHeaderUnchecked ==
    [threw |-> FALSE, message |-> "", Authorization |-> <<"Bearer", ACCESS_TOKEN>>]

\* authHeader(): throws when there is no token
authHeader ==
    IF ACCESS_TOKEN = NoToken
    THEN [threw |-> TRUE, message |-> "No autenticado", Authorization |-> <<>>]
    ELSE [threw |-> FALSE, message |-> "", Authorization |-> <<"Bearer", ACCESS_TOKEN>>]

\* a template that writes the link line whether or not there is a link
buildWhatsAppTextAlwaysLink(p) ==
    <<"[calendar]", " ", "*">> \o p.title \o <<"*", "\n">>
    \o <<"[clock]", " ">> \o p.start \o <<" ", "-", " ">> \o p.end \o <<"\n">>
    \o <<"[pin]", " ">>
    \o (IF p.location # <<>> THEN p.location ELSE <<"[dash]">>) \o <<"\n">>
    \o <<"[link]", " ", p.link>>

\* buildWhatsAppText: the template, as a sequence of characters and tokens
buildWhatsAppText(p) ==
    <<"[calendar]", " ", "*">> \o p.title \o <<"*", "\n">>
    \o <<"[clock]", " ">> \o p.start \o <<" ", "-", " ">> \o p.end \o <<"\n">>
    \o <<"[pin]", " ">>
    \o (IF p.location # <<>> THEN p.location ELSE <<"[dash]">>) \o <<"\n">>
    \o (IF p.link # "" THEN <<"[link]", " ", p.link>> ELSE <<>>)

\* encodeURIComponent, one character or token at a time: letters, digits,
\* "-" and "*" are kept, everything else is percent-encoded as UTF-8
EncodeChar(ch) ==
    CASE ch = " " -> "%20"
      [] ch = "\n" -> "%0A"
      [] ch = "10:00" -> "10%3A00"
      [] ch = "11:00" -> "11%3A00"
      [] ch = "https://calendar/evt" -> "https%3A%2F%2Fcalendar%2Fevt"
      [] ch = "[calendar]" -> "%F0%9F%93%85"
      [] ch = "[clock]" -> "%F0%9F%95%92"
      [] ch = "[pin]" -> "%F0%9F%93%8D"
      [] ch = "[link]" -> "%F0%9F%94%97"
      [] ch = "[dash]" -> "%E2%80%94"
      [] OTHER -> ch
encodeURIComponent(text) == [i \in 1..Len(text) |-> EncodeChar(text[i])]

\* the two URLs sendWhatsAppMessage builds (app.tsx:76, 79), as the pieces
\* the template strings put together
SchemeUrl(text, ph) ==
    IF ph # ""
    THEN <<"whatsapp://send?phone=", ph, "&text=">> \o encodeURIComponent(text)
    ELSE <<"whatsapp://send?text=">> \o encodeURIComponent(text)
\* a web fallback that forgets the phone
WebUrlNoPhone(text, ph) == <<"https://wa.me/?text=">> \o encodeURIComponent(text)

WebUrl(text, ph) ==
    IF ph # ""
    THEN <<"https://wa.me/", ph, "?text=">> \o encodeURIComponent(text)
    ELSE <<"https://wa.me/?text=">> \o encodeURIComponent(text)

\* the effective start and end of an event: dateTime || date
StartOf(e) ==
    IF e.start.dateTime # NoTime THEN e.start.dateTime
    ELSE [day |-> e.start.date, time |-> ""]
EndOf(e) ==
    IF e.end.dateTime # NoTime THEN e.end.dateTime
    ELSE [day |-> e.end.date, time |-> ""]
Truthy(s) == s.day # ""

\* dayjs(s).format("YYYY-MM-DD"); dayjs(undefined) is now
FormatDay(s) == IF Truthy(s) THEN s.day ELSE Today
\* dayjs(s).format("HH:mm"); a date without a time is midnight
FormatTime(s) == OrElse(s.time, "00:00")

\* the agenda entry pushed for an event (app.tsx:122-126)
AgendaEntry(e) ==
    [name |-> IF e.summary # <<>> THEN e.summary ELSE <<"(Sin titulo)">>,
     time |-> IF Truthy(StartOf(e)) /\ Truthy(EndOf(e))
              THEN <<FormatTime(StartOf(e)), "-", FormatTime(EndOf(e))>>
              ELSE <<"Todo el dia">>,
     raw |-> e]

\* an iteration that replaces what the day already holds
PushEventOverwrite(map, e) ==
    LET key == FormatDay(StartOf(e)) IN
    [k \in DOMAIN map \cup {key} |->
        IF k = key THEN <<AgendaEntry(e)>> ELSE map[k]]

\* one iteration of events.forEach (app.tsx:117-127)
PushEvent(map, e) ==
    LET key == FormatDay(StartOf(e)) IN
    IF key \in DOMAIN map
    THEN [map EXCEPT ![key] = Append(@, AgendaEntry(e))]
    ELSE [k \in DOMAIN map \cup {key} |->
            IF k = key THEN <<AgendaEntry(e)>> ELSE map[k]]

RECURSIVE BuildMap(_, _)
BuildMap(map, events) ==
    IF events = <<>> THEN map
    ELSE BuildMap(PushEvent(map, Head(events)), Tail(events))

EmptyMap == [k \in {} |-> <<>>]


-----------------------------------------------------------------------------
(* Chains, requests and the side effects of a chain *)

formVars == <<title, date, location, phone>>

Chain(kind, pc) ==
    [kind |-> kind, pc |-> pc, env |-> Form(<<>>, "", <<>>, ""), evt |-> NoEvt,
     arg |-> NoArg, text |-> <<>>, probes |-> <<>>,
     failedAt |-> "", failure |-> "", result |-> <<>>,
     alerts |-> <<>>, warnings |-> <<>>, opened |-> <<>>]

Request(c, op, body) == [chain |-> c, op |-> op, body |-> body, resp |-> NoResp]

\* the chain ends because step `at` failed with message `msg`
Failed(ch, at, msg) == [ch EXCEPT !.pc = "done", !.failedAt = at, !.failure = msg]

\* Alert.alert(t, msg) called by the chain
Alert(ch, t, msg) == [ch EXCEPT !.alerts = Append(@, [title |-> t, message |-> msg])]

\* console.warn(e) called by the chain
Warn(ch, msg) == [ch EXCEPT !.warnings = Append(@, msg)]

Pending(op) == {r \in inflight : r.op = op /\ r.resp.status = "pending"}

\* no continuation is queued as a microtask: handleLogin resumes right after
\* signInWithGoogle returns, before any press or any other response is handled
RunToCompletion == \A c \in 1..Len(chains) : chains[c].pc # "signedIn"

Init ==
    /\ clientId \in ClientIds
    /\ ACCESS_TOKEN = NoToken
    /\ logged = FALSE
    /\ items = EmptyMap
    /\ loadingEvents = FALSE
    /\ title = <<>>
    /\ date = Today
    /\ location = <<>>
    /\ phone = ""
    /\ contactsCount = 0
    /\ chains = <<>>
    /\ inflight = {}
    /\ calendar = InitCalendar
    /\ sent = [GET |-> 0, POST |-> 0]

-----------------------------------------------------------------------------
(* The form's text inputs (app.tsx:194-201), shown only when logged: the
   user types until the form reads f *)

EditForm(f) ==
    /\ RunToCompletion
    /\ logged
    /\ f # Form(title, date, location, phone)
    /\ title' = f.title
    /\ date' = f.date
    /\ location' = f.location
    /\ phone' = f.phone
    /\ UNCHANGED <<clientId, ACCESS_TOKEN, logged, items, loadingEvents,
                   contactsCount, chains, inflight, calendar, sent>>

-----------------------------------------------------------------------------
(* listEvents (app.tsx:44-50) and loadMonthEvents (app.tsx:110-134) *)

\* listEvents started while the caller's own await is still pending
listEventsNotAwaited(c, fl) ==
    IF authHeader.threw
    THEN UNCHANGED <<inflight, sent>>
    ELSE /\ inflight' = inflight \cup {Request(c, "GET", NoBody)}
         /\ sent' = [sent EXCEPT !.GET = @ + 1]

\* listEvents called by chain c: the header is computed before the GET is sent
\* (fl: what is in flight once the caller's own await has been resolved)
listEvents(c, fl) ==
    IF authHeader.threw
    THEN inflight' = fl /\ UNCHANGED sent
    ELSE /\ inflight' = fl \cup {Request(c, "GET", NoBody)}
         /\ sent' = [sent EXCEPT !.GET = @ + 1]

\* a catch that also alerts the user
ListCatchAlerting(ch, msg) ==
    Alert(Warn(Failed(ch, "listEvents", msg), msg), "Error", msg)

\* the catch and finally of loadMonthEvents (app.tsx:129-133), applied to the
\* chain's record; the flag is reset by ListFinally
ListCatch(ch, msg) == Warn(Failed(ch, "listEvents", msg), msg)
ListFinallyStuck == loadingEvents
ListFinally == FALSE

\* loadMonthEvents up to its await, run by chain c whose record is ch in cs
loadMonthEvents(c, ch, cs, fl) ==
    /\ listEvents(c, fl)
    /\ IF authHeader.threw
       THEN /\ loadingEvents' = ListFinally
            /\ chains' = [cs EXCEPT ![c] = ListCatch(ch, authHeader.message)]
       ELSE /\ loadingEvents' = TRUE
            /\ chains' = [cs EXCEPT ![c] = [ch EXCEPT !.pc = "listEvents"]]

\* the refresh control: onPress={loadMonthEvents} disabled={loadingEvents}
PressRefresh ==
    /\ RunToCompletion
    /\ logged /\ ~loadingEvents
    /\ Len(chains) < MaxChains
    /\ LET c == Len(chains) + 1
           ch == Chain("refresh", "start")
       IN loadMonthEvents(c, ch, Append(chains, ch), inflight)
    /\ UNCHANGED <<clientId, ACCESS_TOKEN, logged, items, formVars,
                   contactsCount, calendar>>

\* the bodies a 200 answer may carry: the events the calendar holds at that
\* moment, an empty list (nothing in the window asked for), or no items field
OkBodies ==
    {[hasItems |-> TRUE, items |-> calendar],
     [hasItems |-> TRUE, items |-> <<>>],
     [hasItems |-> FALSE, items |-> <<>>]}

\* the provider answers a GET
ServeGetOk(r) ==
    /\ r \in Pending("GET")
    /\ \E b \in OkBodies :
         inflight' = (inflight \ {r}) \cup
            {[r EXCEPT !.resp = [status |-> "ok", hasItems |-> b.hasItems,
                                 items |-> b.items, message |-> ""]]}
    /\ UNCHANGED <<clientId, ACCESS_TOKEN, logged, items, loadingEvents,
                   formVars, contactsCount, chains, calendar, sent>>

ServeGetError(r) ==
    /\ r \in Pending("GET")
    /\ \E msg \in HttpErrors :
         inflight' = (inflight \ {r}) \cup
            {[r EXCEPT !.resp = [status |-> "error", hasItems |-> FALSE,
                                 items |-> <<>>, message |-> msg]]}
    /\ UNCHANGED <<clientId, ACCESS_TOKEN, logged, items, loadingEvents,
                   formVars, contactsCount, chains, calendar, sent>>

\* res.data.items || []
ItemsOf(resp) == IF resp.hasItems THEN resp.items ELSE <<>>

\* an agenda that keeps what it shows once it shows something
NextItemsFirstWins(old, events) ==
    IF old = EmptyMap THEN BuildMap(EmptyMap, events) ELSE old

\* an agenda updated in place: the response's events added to what it holds
NextItemsMerge(old, events) == BuildMap(old, events)

\* const map = {}; events.forEach(...); setItems(map) (app.tsx:116-128)
NextItems(old, events) == BuildMap(EmptyMap, events)

\* a fetch whose failure signs the user out
ListEventsReturnLogout(r) ==
    /\ RunToCompletion
    /\ r \in inflight /\ r.op = "GET" /\ r.resp.status # "pending"
    /\ chains[r.chain].kind # "listEvents"
    /\ chains[r.chain].pc = "listEvents"
    /\ inflight' = inflight \ {r}
    /\ IF r.resp.status = "ok"
       THEN /\ items' = BuildMap(EmptyMap, ItemsOf(r.resp))
            /\ chains' = [chains EXCEPT ![r.chain].pc = "done",
                                        ![r.chain].result = ItemsOf(r.resp)]
            /\ UNCHANGED logged
       ELSE /\ chains' = [chains EXCEPT ![r.chain] =
                            Warn(Failed(@, "listEvents", r.resp.message),
                                 r.resp.message)]
            /\ logged' = FALSE
            /\ UNCHANGED items
    /\ loadingEvents' = FALSE
    /\ UNCHANGED <<clientId, ACCESS_TOKEN, formVars, contactsCount,
                   calendar, sent>>

\* a continuation that runs only for a 200 answer: a rejected request leaves
\* the handler waiting
ListEventsReturnOkOnly(r) ==
    /\ RunToCompletion
    /\ r \in inflight /\ r.op = "GET" /\ r.resp.status = "ok"
    /\ chains[r.chain].kind # "listEvents"
    /\ chains[r.chain].pc = "listEvents"
    /\ inflight' = inflight \ {r}
    /\ items' = NextItems(items, ItemsOf(r.resp))
    /\ chains' = [chains EXCEPT ![r.chain].pc = "done",
                                ![r.chain].result = ItemsOf(r.resp)]
    /\ loadingEvents' = ListFinally
    /\ UNCHANGED <<clientId, ACCESS_TOKEN, logged, formVars, contactsCount,
                   calendar, sent>>

\* the response arrives: the rest of loadMonthEvents after the await; the
\* chain's result is its local `events`
ListEventsReturn(r) ==
    /\ RunToCompletion
    /\ r \in inflight /\ r.op = "GET" /\ r.resp.status # "pending"
    /\ chains[r.chain].kind # "listEvents"
    /\ chains[r.chain].pc = "listEvents"
    /\ inflight' = inflight \ {r}
    /\ IF r.resp.status = "ok"
       THEN /\ items' = NextItems(items, ItemsOf(r.resp))
            /\ chains' = [chains EXCEPT ![r.chain].pc = "done",
                                        ![r.chain].result = ItemsOf(r.resp)]
       ELSE /\ chains' = [chains EXCEPT ![r.chain] = ListCatch(@, r.resp.message)]
            /\ UNCHANGED items
    /\ loadingEvents' = ListFinally
    /\ UNCHANGED <<clientId, ACCESS_TOKEN, logged, formVars, contactsCount,
                   calendar, sent>>

-----------------------------------------------------------------------------
(* signInWithGoogle (app.tsx:20-36) and handleLogin (app.tsx:100-108) *)

ConfigMissing == "Falta GOOGLE_CLIENT_ID_WEB en app.config.ts (extra)"
Cancelled == "Inicio de sesion cancelado o fallido"
LoginFallback == "No se pudo iniciar sesion."
CreateFallback == "No se pudo crear el evento."

\* a catch that always shows its fixed text
CatchAlertFixedText(ch, msg, fallback) == Alert(ch, "Error", fallback)

\* the catch of handleLogin and of onCreateEvent:
\* Alert.alert("Error", e?.message || fallback)
CatchAlert(ch, msg, fallback) == Alert(ch, "Error", OrElse(msg, fallback))

\* a sign-in that opens the prompt without looking at the client id
PressLoginUnconfigured ==
    /\ RunToCompletion
    /\ ~logged
    /\ Len(chains) < MaxChains
    /\ LET c == Len(chains) + 1
           ch == Chain("handleLogin", "start")
       IN IF Pending("startAsync") # {}
          THEN /\ chains' = Append(chains,
                    CatchAlert(Failed(ch, "signInWithGoogle", Cancelled),
                               Cancelled, LoginFallback))
               /\ UNCHANGED inflight
          ELSE /\ chains' = Append(chains, [ch EXCEPT !.pc = "startAsync"])
               /\ inflight' = inflight \cup {Request(c, "startAsync", NoBody)}
    /\ UNCHANGED <<clientId, ACCESS_TOKEN, logged, items, loadingEvents,
                   formVars, contactsCount, calendar, sent>>

\* "Entrar con Google", on the logged-out screen.  Without a client id the
\* prompt is not opened; while another prompt is open AuthSession answers
\* 'locked' at once.
PressLogin ==
    /\ RunToCompletion
    /\ ~logged
    /\ Len(chains) < MaxChains
    /\ LET c == Len(chains) + 1
           ch == Chain("handleLogin", "start")
       IN IF clientId = ""
          THEN /\ chains' = Append(chains,
                    CatchAlert(Failed(ch, "signInWithGoogle", ConfigMissing),
                               ConfigMissing, LoginFallback))
               /\ UNCHANGED inflight
          ELSE IF Pending("startAsync") # {}
          THEN /\ chains' = Append(chains,
                    CatchAlert(Failed(ch, "signInWithGoogle", Cancelled),
                               Cancelled, LoginFallback))
               /\ UNCHANGED inflight
          ELSE /\ chains' = Append(chains, [ch EXCEPT !.pc = "startAsync"])
               /\ inflight' = inflight \cup {Request(c, "startAsync", NoBody)}
    /\ UNCHANGED <<clientId, ACCESS_TOKEN, logged, items, loadingEvents,
                   formVars, contactsCount, calendar, sent>>

\* a successful prompt whose token is not kept
StartAsyncSuccessNoStore(r) ==
    /\ RunToCompletion
    /\ r \in Pending("startAsync")
    /\ inflight' = inflight \ {r}
    /\ chains' = [chains EXCEPT ![r.chain].pc =
                    IF chains[r.chain].kind = "handleLogin"
                    THEN "signedIn" ELSE "done"]
    /\ UNCHANGED <<clientId, ACCESS_TOKEN, logged, items, loadingEvents,
                   formVars, contactsCount, calendar, sent>>

\* the prompt returns type "success" with an access token: the token is stored
StartAsyncSuccess(r) ==
    /\ RunToCompletion
    /\ r \in Pending("startAsync")
    /\ \E t \in Tokens : ACCESS_TOKEN' = t
    /\ inflight' = inflight \ {r}
    /\ chains' = [chains EXCEPT ![r.chain].pc =
                    IF chains[r.chain].kind = "handleLogin"
                    THEN "signedIn" ELSE "done"]
    /\ UNCHANGED <<clientId, logged, items, loadingEvents, formVars,
                   contactsCount, calendar, sent>>

\* the prompt is cancelled, dismissed, returns no token, or startAsync rejects
StartAsyncFailure(r) ==
    /\ RunToCompletion
    /\ r \in Pending("startAsync")
    /\ inflight' = inflight \ {r}
    /\ \E msg \in {Cancelled} \cup AuthErrors :
         chains' = [chains EXCEPT ![r.chain] =
                      IF @.kind = "handleLogin"
                      THEN CatchAlert(Failed(@, "signInWithGoogle", msg),
                                      msg, LoginFallback)
                      ELSE Failed(@, "signInWithGoogle", msg)]
    /\ UNCHANGED <<clientId, ACCESS_TOKEN, logged, items, loadingEvents,
                   formVars, contactsCount, calendar, sent>>

\* a login that sets the flag and fetches nothing
LoginContinueNoFetch(c) ==
    /\ c \in 1..Len(chains)
    /\ chains[c].kind = "handleLogin" /\ chains[c].pc = "signedIn"
    /\ logged' = TRUE
    /\ chains' = [chains EXCEPT ![c].pc = "done"]
    /\ UNCHANGED <<clientId, ACCESS_TOKEN, items, loadingEvents, formVars,
                   contactsCount, inflight, calendar, sent>>

\* handleLogin resumes after await signInWithGoogle(): setLogged, loadMonthEvents
LoginContinue(c) ==
    /\ c \in 1..Len(chains)
    /\ chains[c].kind = "handleLogin" /\ chains[c].pc = "signedIn"
    /\ logged' = TRUE
    /\ loadMonthEvents(c, chains[c], chains, inflight)
    /\ UNCHANGED <<clientId, ACCESS_TOKEN, items, formVars, contactsCount,
                   calendar>>

-----------------------------------------------------------------------------
(* createEvent (app.tsx:52-64), sendWhatsAppMessage (app.tsx:74-81) and
   onCreateEvent (app.tsx:136-157) *)

InvalidTime == "Invalid time value"

\* the JSON body of the POST (app.tsx:55-60)
EventBody(env) ==
    [summary |-> Trim(env.title), location |-> Trim(env.location),
     start |-> [dateTime |-> ToISOString(env.date, start), date |-> ""],
     end |-> [dateTime |-> ToISOString(env.date, end), date |-> ""]]

\* a createEvent that drops a request equal to one pending or already stored
createEventOnce(c, body) ==
    IF \/ authHeader.threw
       \/ \E r \in inflight : r.op = "POST" /\ r.body = body
       \/ \E i \in 1..Len(calendar) : calendar[i] = body
    THEN UNCHANGED <<inflight, sent>>
    ELSE /\ inflight' = inflight \cup {Request(c, "POST", body)}
         /\ sent' = [sent EXCEPT !.POST = @ + 1]

\* createEvent called by chain c: the header is computed before the POST is sent
createEvent(c, body) ==
    IF authHeader.threw
    THEN UNCHANGED <<inflight, sent>>
    ELSE /\ inflight' = inflight \cup {Request(c, "POST", body)}
         /\ sent' = [sent EXCEPT !.POST = @ + 1]

\* !title, without the trim
TitleMissingUntrimmed(t) == t = <<>>

\* !title.trim()
TitleMissing(t) == Trim(t) = <<>>

\* "Crear + WhatsApp": the handler up to its first await
PressCreate ==
    /\ RunToCompletion
    /\ logged
    /\ Len(chains) < MaxChains
    /\ LET c == Len(chains) + 1
           env == Form(title, date, location, phone)
           ch == [Chain("onCreateEvent", "start") EXCEPT !.env = env]
       IN IF TitleMissing(title)
          THEN /\ chains' = Append(chains,
                    Alert([ch EXCEPT !.pc = "done"], "Falta titulo", "Ingresa un titulo."))
               /\ UNCHANGED <<inflight, sent>>
          ELSE IF ~IsValidDate(date)
          THEN /\ chains' = Append(chains,
                    CatchAlert(Failed(ch, "toISOString", InvalidTime),
                               InvalidTime, CreateFallback))
               /\ UNCHANGED <<inflight, sent>>
          ELSE /\ createEvent(c, EventBody(env))
               /\ chains' = Append(chains,
                    IF authHeader.threw
                    THEN CatchAlert(Failed(ch, "createEvent", authHeader.message),
                                    authHeader.message, CreateFallback)
                    ELSE [ch EXCEPT !.pc = "createEvent"])
    /\ UNCHANGED <<clientId, ACCESS_TOKEN, logged, items, loadingEvents,
                   formVars, contactsCount, calendar>>

\* what onCreateEvent passes to buildWhatsAppText, from its closure and the
\* created event (app.tsx:143-149), and the text it gets back
ArgOf(ch) ==
    [title |-> Trim(ch.env.title),
     start |-> <<ch.env.date, " ", start>>,
     end |-> <<ch.env.date, " ", end>>,
     location |-> Trim(ch.env.location),
     link |-> ch.evt.htmlLink]
TextOf(ch) == buildWhatsAppText(ArgOf(ch))

\* the provider stores the event and answers with it, in one step (an answer
\* lost after the store is not modelled); onCreateEvent builds the text and
\* sendWhatsAppMessage probes the scheme
PostOk(r) ==
    /\ RunToCompletion
    /\ r \in Pending("POST")
    /\ chains[r.chain].kind = "onCreateEvent"
    /\ calendar' = Append(calendar, r.body)
    /\ \E link \in Links :
         LET ch == [chains[r.chain] EXCEPT !.evt = [htmlLink |-> link]] IN
         chains' = [chains EXCEPT ![r.chain] =
                      [ch EXCEPT !.arg = ArgOf(ch), !.text = TextOf(ch),
                                 !.pc = "canOpenURL"]]
    /\ inflight' = (inflight \ {r}) \cup {Request(r.chain, "canOpenURL", NoBody)}
    /\ UNCHANGED <<clientId, ACCESS_TOKEN, logged, items, loadingEvents,
                   formVars, contactsCount, sent>>

\* the POST fails: nothing is stored, createEvent throws into the catch
PostError(r) ==
    /\ RunToCompletion
    /\ r \in Pending("POST")
    /\ chains[r.chain].kind = "onCreateEvent"
    /\ inflight' = inflight \ {r}
    /\ \E msg \in HttpErrors :
         chains' = [chains EXCEPT ![r.chain] =
                      CatchAlert(Failed(@, "createEvent", msg), msg, CreateFallback)]
    /\ UNCHANGED <<clientId, ACCESS_TOKEN, logged, items, loadingEvents,
                   formVars, contactsCount, calendar, sent>>

\* the URL sendWhatsAppMessage opens (app.tsx:78-80)
UrlToOpen(text, ph, canOpen) ==
    IF canOpen THEN SchemeUrl(text, ph) ELSE WebUrl(text, ph)

\* canOpenURL resolves and openURL is called
CanOpenResult(r) ==
    /\ RunToCompletion
    /\ r \in Pending("canOpenURL")
    /\ \E canOpen \in BOOLEAN :
         chains' = [chains EXCEPT
            ![r.chain].probes = Append(@, canOpen),
            ![r.chain].opened =
                Append(@, UrlToOpen(chains[r.chain].text,
                                    chains[r.chain].env.phone, canOpen)),
            ![r.chain].pc = "openURL"]
    /\ inflight' = (inflight \ {r}) \cup {Request(r.chain, "openURL", NoBody)}
    /\ UNCHANGED <<clientId, ACCESS_TOKEN, logged, items, loadingEvents,
                   formVars, contactsCount, calendar, sent>>

\* canOpenURL or openURL rejects: sendWhatsAppMessage throws into the catch
DispatchReject(r) ==
    /\ RunToCompletion
    /\ r \in Pending("canOpenURL") \cup Pending("openURL")
    /\ inflight' = inflight \ {r}
    /\ \E msg \in LinkErrors :
         chains' = [chains EXCEPT ![r.chain] =
                      IF @.kind = "onCreateEvent"
                      THEN CatchAlert(Failed(@, "sendWhatsAppMessage", msg),
                                      msg, CreateFallback)
                      ELSE Failed(@, "sendWhatsAppMessage", msg)]
    /\ UNCHANGED <<clientId, ACCESS_TOKEN, logged, items, loadingEvents,
                   formVars, contactsCount, calendar, sent>>

\* the title left as typed
ClearedTitleKept == title

\* setTitle("")
ClearedTitle == <<>>

\* openURL resolves: the alert, setTitle("") and loadMonthEvents
OpenOk(r) ==
    /\ RunToCompletion
    /\ r \in Pending("openURL")
    /\ chains[r.chain].kind = "onCreateEvent"
    /\ title' = ClearedTitle
    /\ loadMonthEvents(r.chain,
                       Alert(chains[r.chain], "Listo", "Evento creado y WhatsApp abierto."),
                       chains, inflight \ {r})
    /\ UNCHANGED <<clientId, ACCESS_TOKEN, logged, items, date, location, phone,
                   contactsCount, calendar>>

-----------------------------------------------------------------------------
(* importContacts (app.tsx:159-165): no try/catch *)

PressImport ==
    /\ RunToCompletion
    /\ logged
    /\ Len(chains) < MaxChains
    /\ chains' = Append(chains, Chain("importContacts", "requestPermissions"))
    /\ inflight' = inflight \cup
                      {Request(Len(chains) + 1, "requestPermissions", NoBody)}
    /\ UNCHANGED <<clientId, ACCESS_TOKEN, logged, items, loadingEvents,
                   formVars, contactsCount, calendar, sent>>

PermissionResult(r) ==
    /\ RunToCompletion
    /\ r \in Pending("requestPermissions")
    /\ \E status \in {"granted", "denied"} :
         IF status # "granted"
         THEN /\ chains' = [chains EXCEPT ![r.chain] =
                    Alert([@ EXCEPT !.pc = "done"], "Permiso",
                          "Acceso a contactos denegado.")]
              /\ inflight' = inflight \ {r}
         ELSE /\ chains' = [chains EXCEPT ![r.chain].pc = "getContacts"]
              /\ inflight' = (inflight \ {r}) \cup
                                {Request(r.chain, "getContacts", NoBody)}
    /\ UNCHANGED <<clientId, ACCESS_TOKEN, logged, items, loadingEvents,
                   formVars, contactsCount, calendar, sent>>

\* an import that adds what it read to the count
ContactsResultAdds(r) ==
    /\ RunToCompletion
    /\ r \in Pending("getContacts")
    /\ \E n \in ContactCounts :
         /\ contactsCount' = contactsCount + n
         /\ chains' = [chains EXCEPT ![r.chain] =
               Alert([@ EXCEPT !.pc = "done"], "Contactos", <<"Se cargaron", n>>)]
    /\ inflight' = inflight \ {r}
    /\ UNCHANGED <<clientId, ACCESS_TOKEN, logged, items, loadingEvents,
                   formVars, calendar, sent>>

\* getContactsAsync resolves: setContactsCount(data.length) and the alert
ContactsResult(r) ==
    /\ RunToCompletion
    /\ r \in Pending("getContacts")
    /\ \E n \in ContactCounts :
         /\ contactsCount' = n
         /\ chains' = [chains EXCEPT ![r.chain] =
               Alert([@ EXCEPT !.pc = "done"], "Contactos", <<"Se cargaron", n>>)]
    /\ inflight' = inflight \ {r}
    /\ UNCHANGED <<clientId, ACCESS_TOKEN, logged, items, loadingEvents,
                   formVars, calendar, sent>>

\* either await rejects: nothing catches it (an unhandled rejection)
ImportReject(r) ==
    /\ RunToCompletion
    /\ r \in Pending("requestPermissions") \cup Pending("getContacts")
    /\ inflight' = inflight \ {r}
    /\ \E msg \in ContactsErrors :
         chains' = [chains EXCEPT ![r.chain] = Failed(@, r.op, msg)]
    /\ UNCHANGED <<clientId, ACCESS_TOKEN, logged, items, loadingEvents,
                   formVars, contactsCount, calendar, sent>>

-----------------------------------------------------------------------------

Next ==
    \/ \E f \in Forms : EditForm(f)
    \/ PressLogin
    \/ \E r \in inflight : StartAsyncSuccess(r)
    \/ \E r \in inflight : StartAsyncFailure(r)
    \/ \E c \in 1..Len(chains) : LoginContinue(c)
    \/ PressRefresh
    \/ \E r \in inflight : ServeGetOk(r)
    \/ \E r \in inflight : ServeGetError(r)
    \/ \E r \in inflight : ListEventsReturn(r)
    \/ PressCreate
    \/ \E r \in inflight : PostOk(r)
    \/ \E r \in inflight : PostError(r)
    \/ \E r \in inflight : CanOpenResult(r)
    \/ \E r \in inflight : DispatchReject(r)
    \/ \E r \in inflight : OpenOk(r)
    \/ PressImport
    \/ \E r \in inflight : PermissionResult(r)
    \/ \E r \in inflight : ContactsResult(r)
    \/ \E r \in inflight : ImportReject(r)

Spec == Init /\ [][Next]_vars

\* Scheduling: the provider answers every request it was sent, and the
\* JavaScript event loop runs every continuation whose promise has settled.
Fairness ==
    /\ WF_vars(\E r \in inflight : ServeGetOk(r) \/ ServeGetError(r))
    /\ WF_vars(\E r \in inflight : ListEventsReturn(r))
    /\ WF_vars(\E c \in 1..Len(chains) : LoginContinue(c))

FairSpec == Spec /\ Fairness

-----------------------------------------------------------------------------
(* The session holder and the calendar client called directly, as a caller
   of signInWithGoogle, listEvents and createEvent would: the calls can come
   in any order, also before any sign-in. *)

\* events a direct caller may ask createEvent to create
CallBodies == {EventBody(Form(<<"C">>, Today, <<>>, "")),
               EventBody(Form(<<"D">>, "2024-06-12", Cafe, ""))}

CallSignIn ==
    /\ RunToCompletion
    /\ Len(chains) < MaxChains
    /\ LET c == Len(chains) + 1
           ch == Chain("signInWithGoogle", "start")
       IN IF clientId = ""
          THEN /\ chains' = Append(chains, Failed(ch, "signInWithGoogle", ConfigMissing))
               /\ UNCHANGED inflight
          ELSE IF Pending("startAsync") # {}
          THEN /\ chains' = Append(chains, Failed(ch, "signInWithGoogle", Cancelled))
               /\ UNCHANGED inflight
          ELSE /\ chains' = Append(chains, [ch EXCEPT !.pc = "startAsync"])
               /\ inflight' = inflight \cup {Request(c, "startAsync", NoBody)}
    /\ UNCHANGED <<clientId, ACCESS_TOKEN, logged, items, loadingEvents,
                   formVars, contactsCount, calendar, sent>>

CallListEvents ==
    /\ RunToCompletion
    /\ Len(chains) < MaxChains
    /\ LET c == Len(chains) + 1
           ch == Chain("listEvents", "start")
       IN /\ listEvents(c, inflight)
          /\ chains' = Append(chains,
                IF authHeader.threw
                THEN Failed(ch, "authHeader", authHeader.message)
                ELSE [ch EXCEPT !.pc = "listEvents"])
    /\ UNCHANGED <<clientId, ACCESS_TOKEN, logged, items, loadingEvents,
                   formVars, contactsCount, calendar>>

\* the GET settles: listEvents returns res.data.items || [] or rejects
ListEventsSettle(r) ==
    /\ RunToCompletion
    /\ r \in inflight /\ r.op = "GET" /\ r.resp.status # "pending"
    /\ chains[r.chain].kind = "listEvents"
    /\ inflight' = inflight \ {r}
    /\ chains' = [chains EXCEPT ![r.chain] =
          IF r.resp.status = "ok"
          THEN [@ EXCEPT !.pc = "done", !.result = ItemsOf(r.resp)]
          ELSE Failed(@, "get", r.resp.message)]
    /\ UNCHANGED <<clientId, ACCESS_TOKEN, logged, items, loadingEvents,
                   formVars, contactsCount, calendar, sent>>

CallCreateEvent(body) ==
    /\ RunToCompletion
    /\ Len(chains) < MaxChains
    /\ LET c == Len(chains) + 1
           ch == Chain("createEvent", "start")
       IN /\ createEvent(c, body)
          /\ chains' = Append(chains,
                IF authHeader.threw
                THEN Failed(ch, "authHeader", authHeader.message)
                ELSE [ch EXCEPT !.pc = "createEvent"])
    /\ UNCHANGED <<clientId, ACCESS_TOKEN, logged, items, loadingEvents,
                   formVars, contactsCount, calendar>>

\* the POST settles: createEvent returns res.data or rejects
CreateEventSettle(r) ==
    /\ RunToCompletion
    /\ r \in Pending("POST")
    /\ chains[r.chain].kind = "createEvent"
    /\ inflight' = inflight \ {r}
    /\ \/ /\ calendar' = Append(calendar, r.body)
          /\ \E link \in Links :
               chains' = [chains EXCEPT ![r.chain].evt = [htmlLink |-> link],
                                        ![r.chain].pc = "done"]
       \/ /\ \E msg \in HttpErrors :
               chains' = [chains EXCEPT ![r.chain] = Failed(@, "post", msg)]
          /\ UNCHANGED calendar
    /\ UNCHANGED <<clientId, ACCESS_TOKEN, logged, items, loadingEvents,
                   formVars, contactsCount, sent>>

\* parameters a direct caller may pass to buildWhatsAppText: a title or none,
\* a location or none, a link or none
ComposeArgs ==
    {[title |-> t, start |-> <<Today, " ", start>>, end |-> <<Today, " ", end>>,
      location |-> l, link |-> k] :
        t \in {<<>>, <<"C">>}, l \in {<<>>, Cafe}, k \in {""} \cup Links}

\* buildWhatsAppText(p), called directly: it returns at once
CallBuildWhatsAppText(p) ==
    /\ RunToCompletion
    /\ Len(chains) < MaxChains
    /\ chains' = Append(chains,
          [Chain("buildWhatsAppText", "done") EXCEPT
              !.arg = p, !.text = buildWhatsAppText(p)])
    /\ UNCHANGED <<clientId, ACCESS_TOKEN, logged, items, loadingEvents,
                   formVars, contactsCount, inflight, calendar, sent>>

\* texts and phones a direct caller may pass to sendWhatsAppMessage
SendTexts ==
    {buildWhatsAppText(p) :
        p \in {a \in ComposeArgs : a.title # <<>> /\ a.location = <<>> /\ a.link # ""}}
SendPhones == {"", "5491122334455"}

\* sendWhatsAppMessage(text, phone), called directly, up to its await
CallSendWhatsAppMessage(text, ph) ==
    /\ RunToCompletion
    /\ Len(chains) < MaxChains
    /\ chains' = Append(chains,
          [Chain("sendWhatsAppMessage", "canOpenURL") EXCEPT
              !.text = text, !.env.phone = ph])
    /\ inflight' = inflight \cup {Request(Len(chains) + 1, "canOpenURL", NoBody)}
    /\ UNCHANGED <<clientId, ACCESS_TOKEN, logged, items, loadingEvents,
                   formVars, contactsCount, calendar, sent>>

\* openURL resolves: sendWhatsAppMessage returns
SendSettle(r) ==
    /\ RunToCompletion
    /\ r \in Pending("openURL")
    /\ chains[r.chain].kind = "sendWhatsAppMessage"
    /\ inflight' = inflight \ {r}
    /\ chains' = [chains EXCEPT ![r.chain].pc = "done"]
    /\ UNCHANGED <<clientId, ACCESS_TOKEN, logged, items, loadingEvents,
                   formVars, contactsCount, calendar, sent>>

ClientNext ==
    \/ CallSignIn
    \/ \E r \in inflight : StartAsyncSuccess(r)
    \/ \E r \in inflight : StartAsyncFailure(r)
    \/ CallListEvents
    \/ \E r \in inflight : ServeGetOk(r)
    \/ \E r \in inflight : ServeGetError(r)
    \/ \E r \in inflight : ListEventsSettle(r)
    \/ \E body \in CallBodies : CallCreateEvent(body)
    \/ \E r \in inflight : CreateEventSettle(r)

ClientSpec == Init /\ [][ClientNext]_vars

\* the message composer called directly, with any of its parameters
ComposeNext == \E p \in ComposeArgs : CallBuildWhatsAppText(p)

ComposeSpec == Init /\ [][ComposeNext]_vars

\* the dispatcher called directly, with any text and with or without a phone
SendNext ==
    \/ \E text \in SendTexts, ph \in SendPhones : CallSendWhatsAppMessage(text, ph)
    \/ \E r \in inflight : CanOpenResult(r)
    \/ \E r \in inflight : DispatchReject(r)
    \/ \E r \in inflight : SendSettle(r)

SendSpec == Init /\ [][SendNext]_vars

-----------------------------------------------------------------------------
(* Properties *)

ChainIds == 1..Len(chains)
RequestsOf(c) == {r \in inflight : r.chain = c}
Blank(t) == \A i \in 1..Len(t) : t[i] = " "
ErrorAlert(msg) == [title |-> "Error", message |-> msg]
ValidationAlert == [title |-> "Falta titulo", message |-> "Ingresa un titulo."]
ListoAlert == [title |-> "Listo", message |-> "Evento creado y WhatsApp abierto."]
\* a chain is started in this step
Started(kind) ==
    /\ Len(chains') = Len(chains) + 1
    /\ chains'[Len(chains')].kind = kind
NewChain == chains'[Len(chains')]

\* C1: while the token is null, every call of listEvents or createEvent has
\* failed with "No autenticado", and no GET or POST has been issued or is in
\* flight (and the provider's calendar is untouched).
C1_UnauthenticatedCallsFail ==
    ACCESS_TOKEN = NoToken =>
        /\ sent.GET = 0 /\ sent.POST = 0
        /\ \A r \in inflight : r.op \notin {"GET", "POST"}
        /\ calendar = InitCalendar
        /\ \A c \in ChainIds :
             chains[c].kind \in {"listEvents", "createEvent"} =>
                /\ chains[c].pc = "done"
                /\ chains[c].failure = "No autenticado"

C1_Witness ==
    /\ ACCESS_TOKEN = NoToken
    /\ \E c \in ChainIds :
         chains[c].kind = "listEvents" /\ chains[c].failure = "No autenticado"
    /\ \E c \in ChainIds :
         chains[c].kind = "createEvent" /\ chains[c].failure = "No autenticado"

\* C2: a press of "Crear + WhatsApp" with an empty or whitespace-only title
\* shows the validation alert and returns: no request is sent, nothing is put
\* in flight, no URL is opened, and title, agenda, loading flag and calendar
\* are unchanged.
C2_BlankTitleOnlyAlerts ==
    [][(Started("onCreateEvent") /\ Blank(title)) =>
          /\ NewChain.alerts = <<ValidationAlert>>
          /\ NewChain.pc = "done"
          /\ NewChain.opened = <<>>
          /\ NewChain.warnings = <<>>
          /\ NewChain.failure = ""
          /\ sent' = sent
          /\ inflight' = inflight
          /\ title' = title
          /\ items' = items
          /\ loadingEvents' = loadingEvents
          /\ calendar' = calendar]_vars

C2_Witness ==
    /\ \E c \in ChainIds :
         /\ chains[c].kind = "onCreateEvent"
         /\ chains[c].env.title = <<" ">>
         /\ chains[c].alerts = <<ValidationAlert>>
    /\ \E c \in ChainIds :
         /\ chains[c].kind = "onCreateEvent"
         /\ chains[c].env.title = <<>>
         /\ chains[c].alerts = <<ValidationAlert>>

\* the create flow of chain c fails in this step, at the create request or at
\* the dispatch
CreateFlowFails(c) ==
    /\ chains[c].kind = "onCreateEvent"
    /\ chains[c].pc # "done"
    /\ chains'[c].failedAt \in {"createEvent", "sendWhatsAppMessage"}

\* C3: when the create request or the dispatch of a create flow fails, the
\* flow ends there with one alert, the error alert carrying the failure's
\* message: no dispatch after a failed create, no success alert, no title
\* clear, no fetch, nothing left in flight, and the provider's calendar is
\* left as it is (the event created before a failed dispatch stays); a flow
\* that has ended takes no further step.
C3_CreateFailureAborts ==
    [][\A c \in ChainIds :
          /\ CreateFlowFails(c) =>
                /\ chains'[c].pc = "done"
                /\ chains'[c].alerts = <<ErrorAlert(chains'[c].failure)>>
                /\ chains'[c].failure \in HttpErrors \cup LinkErrors
                /\ chains'[c].opened = chains[c].opened
                /\ (chains'[c].failedAt = "createEvent" => chains'[c].opened = <<>>)
                /\ (chains'[c].failedAt = "sendWhatsAppMessage" =>
                        EventBody(chains[c].env) \in
                            {calendar'[i] : i \in 1..Len(calendar')})
                /\ chains'[c].warnings = <<>>
                /\ RequestsOf(c)' = {}
                /\ title' = title
                /\ loadingEvents' = loadingEvents
                /\ items' = items
                /\ sent' = sent
                /\ calendar' = calendar
          /\ (chains[c].pc = "done" => chains'[c] = chains[c])]_vars

C3_Witness ==
    /\ \E c \in ChainIds :
         /\ chains[c].kind = "onCreateEvent"
         /\ chains[c].failedAt = "createEvent"
         /\ chains[c].alerts = <<ErrorAlert("Network Error")>>
    /\ \E c \in ChainIds :
         /\ chains[c].kind = "onCreateEvent"
         /\ chains[c].failedAt = "sendWhatsAppMessage"
         /\ chains[c].opened # <<>>
         /\ EventBody(chains[c].env) \in {calendar[i] : i \in 1..Len(calendar)}

AppKinds == {"handleLogin", "refresh", "onCreateEvent", "importContacts"}
GetsOf(c) == {r \in RequestsOf(c) : r.op = "GET"}

\* C4: in a create flow whose create request and dispatch succeed, the steps
\* come in the order create request, dispatch, title clear, fetch: the POST's
\* answer starts the probe, the probe's answer opens the URL, and the step in
\* which openURL resolves shows the success alert, sets the title to empty and
\* sends exactly one GET; no other step of the flow sends a GET or changes the
\* title, and the flow's GET is in flight only after the URL was opened and
\* with nothing else of the flow pending.
C4_StepOrder ==
    \A c \in ChainIds :
        chains[c].kind = "onCreateEvent" =>
            /\ (chains[c].pc = "createEvent" /\ chains'[c].pc # "createEvent"
                    /\ chains'[c].failure = "") =>
                  /\ chains'[c].pc = "canOpenURL"
                  /\ calendar' = Append(calendar, EventBody(chains[c].env))
                  /\ chains'[c].opened = <<>>
            /\ (chains[c].pc = "canOpenURL" /\ chains'[c].pc # "canOpenURL"
                    /\ chains'[c].failure = "") =>
                  /\ chains'[c].pc = "openURL"
                  /\ Len(chains'[c].opened) = 1
                  /\ chains'[c].alerts = <<>>
            /\ (chains[c].pc = "openURL" /\ chains'[c].pc # "openURL"
                    /\ chains'[c].failure = "") =>
                  /\ chains'[c].pc = "listEvents"
                  /\ chains'[c].alerts = <<ListoAlert>>
                  /\ title' = <<>>
                  /\ sent'.GET = sent.GET + 1
                  /\ Cardinality(GetsOf(c)') = 1
                  /\ RequestsOf(c)' = GetsOf(c)'
                  /\ loadingEvents'
            /\ (chains'[c] # chains[c] /\ chains[c].pc # "openURL") =>
                  /\ sent'.GET = sent.GET
                  /\ title' = title

C4_FetchAfterDispatch ==
    \A r \in inflight :
        (r.op = "GET" /\ chains[r.chain].kind = "onCreateEvent") =>
            /\ chains[r.chain].pc = "listEvents"
            /\ Len(chains[r.chain].opened) = 1
            /\ RequestsOf(r.chain) = {r}

C4_CreateSuccessOrder ==
    /\ []C4_FetchAfterDispatch
    /\ [][/\ C4_StepOrder
          /\ Started("onCreateEvent") => (sent'.GET = sent.GET /\ title' = title)]_vars

C4_Witness ==
    \E c \in ChainIds :
        /\ chains[c].kind = "onCreateEvent"
        /\ chains[c].pc = "listEvents"
        /\ chains[c].alerts = <<ListoAlert>>
        /\ ~Blank(chains[c].env.title)
        /\ title = <<>>
        /\ GetsOf(c) # {}

\* C5 as stated: every failure of a user-triggered action is shown in an
\* alert carrying the failure's message.
C5_EveryFailureAlerts ==
    \A c \in ChainIds :
        (chains[c].kind \in AppKinds /\ chains[c].failure # "") =>
            \E i \in 1..Len(chains[c].alerts) :
                chains[c].alerts[i].message = chains[c].failure

\* C5, amended: a failure of the sign-in (login) or of the create request or
\* dispatch (create) is shown in one error alert carrying the failure's
\* message; a failed month fetch, whichever action started it, gives only a
\* console warning with the message and no error alert; a failure of an
\* awaited step of the contacts import gives neither.
C5_FailureSurfacing ==
    \A c \in ChainIds :
        (chains[c].kind \in AppKinds /\ chains[c].failure # "") =>
            /\ chains[c].failedAt \in
                    {"signInWithGoogle", "toISOString", "createEvent",
                     "sendWhatsAppMessage"} =>
                  /\ chains[c].alerts = <<ErrorAlert(chains[c].failure)>>
                  /\ chains[c].warnings = <<>>
            /\ chains[c].failedAt = "listEvents" =>
                  /\ chains[c].warnings = <<chains[c].failure>>
                  /\ \A i \in 1..Len(chains[c].alerts) :
                        chains[c].alerts[i].title # "Error"
            /\ chains[c].failedAt \in {"requestPermissions", "getContacts"} =>
                  /\ chains[c].alerts = <<>>
                  /\ chains[c].warnings = <<>>
            /\ chains[c].failedAt \in
                    {"signInWithGoogle", "toISOString", "createEvent",
                     "sendWhatsAppMessage", "listEvents", "requestPermissions",
                     "getContacts"}

C5_Witness ==
    /\ \E c \in ChainIds :
         chains[c].kind = "handleLogin" /\ chains[c].failedAt = "listEvents"
    /\ \E c \in ChainIds :
         chains[c].kind = "onCreateEvent" /\ chains[c].failedAt = "sendWhatsAppMessage"
    /\ \E c \in ChainIds :
         chains[c].kind = "importContacts" /\ chains[c].failedAt = "getContacts"

\* the month fetch of chain c fails in this step
FetchFails(c) ==
    /\ c \in 1..Len(chains')
    /\ chains'[c].failedAt = "listEvents"
    /\ (c \in ChainIds => chains[c].failedAt # "listEvents")

\* C6: the step in which a month fetch fails leaves the agenda as it was,
\* shows no alert, logs one console warning with the failure's message and
\* resets the loading flag, whichever action started the fetch.
C6_FetchFailureKeepsAgenda ==
    [][\A c \in 1..Len(chains') :
          FetchFails(c) =>
             /\ items' = items
             /\ loadingEvents' = FALSE
             /\ chains'[c].warnings = <<chains'[c].failure>>
             /\ chains'[c].failure \in HttpErrors \cup {"No autenticado"}
             /\ chains'[c].pc = "done"
             /\ (c \in ChainIds => chains'[c].alerts = chains[c].alerts)
             /\ \A i \in 1..Len(chains'[c].alerts) :
                   chains'[c].alerts[i].title # "Error"
             /\ \A d \in ChainIds \ {c} : chains'[d] = chains[d]]_vars

C6_Witness ==
    /\ \A k \in {"handleLogin", "refresh", "onCreateEvent"} :
         \E c \in ChainIds :
            /\ chains[c].kind = k
            /\ chains[c].failedAt = "listEvents"
            /\ chains[c].warnings = <<"Network Error">>
    /\ ~loadingEvents

\* the position of a chain that awaits operation op
PcOf(op) ==
    CASE op = "GET" -> "listEvents"
      [] op = "POST" -> "createEvent"
      [] OTHER -> op

\* C7 as stated: at most one chain has an awaited step pending.
C7_OneChainPending == Cardinality({r.chain : r \in inflight}) <= 1

\* C7, amended: each chain is sequential, it has at most one awaited step
\* pending and that step is the one its position names; chains started by
\* different presses may be pending together.
C7_ChainsSequential ==
    \A c \in ChainIds :
        /\ Cardinality(RequestsOf(c)) <= 1
        /\ \A r \in RequestsOf(c) : PcOf(r.op) = chains[c].pc
        /\ (chains[c].pc \in {"done", "signedIn"}) = (RequestsOf(c) = {})

C7_Witness ==
    \E c \in ChainIds, d \in ChainIds :
        /\ c # d
        /\ Cardinality(RequestsOf(c)) = 1
        /\ Cardinality(RequestsOf(d)) = 1
        /\ chains[c].kind = "onCreateEvent"
        /\ chains[d].kind \in {"handleLogin", "refresh"}

\* C8: a month fetch that succeeds sets the agenda to the map of its own
\* response in the step its response arrives, whatever the agenda shows and
\* whatever other fetches are in flight or have completed; no step removes
\* another chain's fetch from flight.  So the agenda shown is that of the
\* fetch that completed last, also when that fetch started first.
C8_LastWriteWins ==
    [][/\ \A c \in ChainIds :
            (chains[c].kind \in AppKinds /\ chains[c].pc = "listEvents"
                /\ chains'[c].pc = "done" /\ chains'[c].failure = "") =>
               items' = BuildMap(EmptyMap, chains'[c].result)
       /\ \A r \in inflight :
            (r.op = "GET" /\ chains'[r.chain] = chains[r.chain]) =>
               \E q \in inflight' : q.chain = r.chain /\ q.op = "GET"]_vars

C8_Witness ==
    /\ Len(chains) >= 2
    /\ chains[1].kind = "handleLogin" /\ chains[1].pc = "done"
    /\ chains[1].failure = "" /\ chains[1].result = InitCalendar
    /\ chains[2].kind = "onCreateEvent" /\ chains[2].pc = "done"
    /\ chains[2].failure = "" /\ Len(chains[2].result) = Len(InitCalendar) + 1
    /\ items = BuildMap(EmptyMap, chains[1].result)
    /\ items # BuildMap(EmptyMap, chains[2].result)

\* create chains whose form passed the title and date checks, and those whose
\* POST was answered with the created event
Submitted ==
    {c \in ChainIds : /\ chains[c].kind = "onCreateEvent"
                      /\ ~Blank(chains[c].env.title)
                      /\ chains[c].env.date \in ValidDates}
Created ==
    {c \in Submitted : \/ chains[c].pc \in {"canOpenURL", "openURL", "listEvents"}
                       \/ chains[c].pc = "done" /\ chains[c].failedAt # "createEvent"}

\* C9: every submission of a valid form sends its own POST and every answered
\* POST adds its own event: the POSTs sent are as many as the submissions,
\* the events added as many as the answered POSTs, and an event body occurs
\* in the calendar once per answered submission that carried it.
C9_NoIdempotency ==
    /\ sent.POST = Cardinality(Submitted)
    /\ Len(calendar) = Len(InitCalendar) + Cardinality(Created)
    /\ \A c \in Created :
         Cardinality({i \in 1..Len(calendar) : calendar[i] = EventBody(chains[c].env)})
            = Cardinality({d \in Created : chains[d].env = chains[c].env})

C9_Witness ==
    \E c \in ChainIds, d \in ChainIds :
        /\ c < d
        /\ c \in Created /\ d \in Created
        /\ chains[c].env = chains[d].env
        /\ sent.POST = 2
        /\ Cardinality({i \in 1..Len(calendar) :
                           calendar[i] = EventBody(chains[c].env)}) = 2

\* C10: no step takes the logged flag from true to false.
C10_LoggedStaysTrue == [][logged => logged']_vars

C10_Witness ==
    /\ logged
    /\ \E c \in ChainIds :
         chains[c].kind = "handleLogin" /\ chains[c].failedAt = "listEvents"
    /\ \E c \in ChainIds :
         chains[c].kind = "onCreateEvent" /\ chains[c].failedAt = "createEvent"
    /\ \E c \in ChainIds :
         chains[c].kind = "importContacts" /\ chains[c].pc = "done"

\* the sign-in of login chain c fails in this step
LoginFails(c) ==
    /\ chains'[c].kind = "handleLogin"
    /\ chains'[c].failedAt = "signInWithGoogle"
    /\ (c \in ChainIds => chains[c].failedAt = "")

\* C11: without a client id no authorization prompt is ever opened, and the
\* step in which a login's sign-in fails (no client id, the prompt cancelled,
\* denied or locked, or startAsync rejecting) is taken logged out and stays
\* logged out, leaves the token as it is, sends no request, leaves agenda and
\* loading flag alone, ends the chain with nothing in flight and shows exactly
\* one alert, the error alert with the failure's message.
C11_LoginFailureStaysLoggedOut ==
    /\ [](clientId = "" => \A r \in inflight : r.op # "startAsync")
    /\ [][\A c \in 1..Len(chains') :
            LoginFails(c) =>
               /\ ~logged /\ ~logged'
               /\ ACCESS_TOKEN' = ACCESS_TOKEN
               /\ sent' = sent
               /\ \A r \in inflight' : r.op # "GET"
               /\ items' = items
               /\ loadingEvents' = loadingEvents
               /\ chains'[c].pc = "done"
               /\ RequestsOf(c)' = {}
               /\ chains'[c].failure \in {ConfigMissing, Cancelled} \cup AuthErrors
               /\ chains'[c].alerts = <<ErrorAlert(chains'[c].failure)>>
               /\ chains'[c].warnings = <<>>
               /\ (clientId = "" => /\ chains'[c].failure = ConfigMissing
                                    /\ c \notin ChainIds
                                    /\ inflight' = inflight)]_vars

C11_Witness ==
    /\ ~logged /\ ACCESS_TOKEN = NoToken /\ sent.GET = 0
    /\ \E c \in ChainIds :
         /\ chains[c].kind = "handleLogin"
         /\ chains[c].failedAt = "signInWithGoogle"
         /\ chains[c].alerts = <<ErrorAlert(Cancelled)>>
    /\ \E c \in ChainIds :
         /\ chains[c].kind = "handleLogin"
         /\ chains[c].alerts = <<ErrorAlert("AuthSession failed")>>

\* what a step does to login chain c
C12_LoginStep(c) ==
    /\ (chains[c].pc = "startAsync" /\ chains'[c].pc = "signedIn") =>
          /\ ACCESS_TOKEN' \in Tokens
          /\ ~logged /\ ~logged'
          /\ sent' = sent
          /\ RequestsOf(c)' = {}
    /\ chains[c].pc = "signedIn" =>
          /\ ACCESS_TOKEN \in Tokens /\ ACCESS_TOKEN' = ACCESS_TOKEN
          /\ ~logged /\ logged'
          /\ chains'[c].pc = "listEvents"
          /\ sent'.GET = sent.GET + 1
          /\ Cardinality(GetsOf(c)') = 1
          /\ RequestsOf(c)' = GetsOf(c)'
          /\ loadingEvents'
    /\ (chains[c].pc # "signedIn" /\ chains'[c] # chains[c]) =>
          sent'.GET = sent.GET
    /\ (chains[c].pc = "listEvents" /\ chains'[c].pc = "done") =>
          /\ logged /\ logged'
          /\ ACCESS_TOKEN' = ACCESS_TOKEN /\ ACCESS_TOKEN \in Tokens

\* C12: in a login whose prompt succeeds, the step that resolves the prompt
\* stores the token with the flag still false and no request sent; the next
\* step of the chain sets the flag and sends exactly one GET with the loading
\* flag true; the chain sends no other GET; and the step in which that fetch
\* completes, failed or not, leaves flag and token as they are.
C12_LoginSuccessOrder ==
    [][\A c \in ChainIds : chains[c].kind = "handleLogin" => C12_LoginStep(c)]_vars

C12_Witness ==
    /\ logged /\ ACCESS_TOKEN \in Tokens /\ ~loadingEvents
    /\ \E c \in ChainIds :
         /\ chains[c].kind = "handleLogin"
         /\ chains[c].failedAt = "listEvents"
    /\ sent.GET = 1

\* the month fetch of chain c succeeds in this step
FetchSucceeds(c) ==
    /\ chains[c].kind \in AppKinds
    /\ chains[c].pc = "listEvents"
    /\ chains'[c].pc = "done" /\ chains'[c].failure = ""

\* the day of an event's effective start: start.dateTime, else start.date
StartDay(e) ==
    IF e.start.dateTime # NoTime THEN e.start.dateTime.day ELSE e.start.date

\* the events of a sequence that start on day k, in the sequence's order
OnDay(events, k) ==
    LET StartsOnK(e) == StartDay(e) = k IN SelectSeq(events, StartsOnK)

\* the events an agenda shows under key k, in the key's order
RawOf(agenda, k) == [i \in 1..Len(agenda[k]) |-> agenda[k][i].raw]

\* C13: in the step in which a month fetch succeeds, the agenda's keys are
\* exactly the start days of the returned events, and under each key the
\* agenda holds the returned events of that day, each once, in the order the
\* provider returned them; so the entries are as many as the events.
C13_AgendaByStartDay ==
    [][\A c \in ChainIds :
          FetchSucceeds(c) =>
             LET events == chains'[c].result IN
             /\ DOMAIN items' = {StartDay(events[i]) : i \in 1..Len(events)}
             /\ \A k \in DOMAIN items' :
                   RawOf(items', k) = OnDay(events, k)
             /\ \A i \in 1..Len(events) :
                   \E j \in 1..Len(items'[StartDay(events[i])]) :
                      items'[StartDay(events[i])][j].raw = events[i]]_vars

C13_Witness ==
    /\ DOMAIN items = {"2024-06-10", "2024-06-11"}
    /\ RawOf(items, "2024-06-10") = <<Lunch, Holiday>>
    /\ Len(items["2024-06-11"]) = 2
    /\ \E c \in ChainIds :
         /\ chains[c].pc = "done" /\ chains[c].failure = ""
         /\ Len(chains[c].result) = 4

\* the answer chain c's fetch is about to read
AnswerOf(c) == {r.resp : r \in GetsOf(c)}

\* C14: in the step in which a month fetch succeeds, whatever the agenda held
\* before, the agenda afterwards holds entries of the response's events only,
\* under each key as many as the response has events of that day; an answer
\* with an empty items list or with no items field leaves the agenda empty.
C14_AgendaRebuiltInFull ==
    [][\A c \in ChainIds :
          FetchSucceeds(c) =>
             LET events == chains'[c].result IN
             /\ \A k \in DOMAIN items' :
                   /\ \A j \in 1..Len(items'[k]) :
                         \E i \in 1..Len(events) : items'[k][j].raw = events[i]
                   /\ Len(items'[k]) =
                         Cardinality({i \in 1..Len(events) : StartDay(events[i]) = k})
             /\ AnswerOf(c) # {}
             /\ \A a \in AnswerOf(c) :
                   /\ (~a.hasItems \/ a.items = <<>>) =>
                          (events = <<>> /\ DOMAIN items' = {})
                   /\ a.hasItems => events = a.items]_vars

C14_Witness ==
    /\ items = EmptyMap
    /\ \E c \in ChainIds, d \in ChainIds :
         /\ chains[c].pc = "done" /\ chains[c].failure = ""
         /\ chains[c].result # <<>>
         /\ chains[d].pc = "done" /\ chains[d].failure = ""
         /\ chains[d].kind = "refresh" /\ chains[d].result = <<>>

\* shapes of an opened URL
IsSchemeUrl(url) == url[1] \in {"whatsapp://send?phone=", "whatsapp://send?text="}
IsWebUrl(url) == url[1] \in {"https://wa.me/", "https://wa.me/?text="}
HasPhone(url) == \E i \in 1..Len(url) : url[i] \in SendPhones \ {""}
TextPart(url, n) == SubSeq(url, Len(url) - n + 1, Len(url))
Raw(url) == \E i \in 1..Len(url) : url[i] \in {" ", "\n", "10:00", "[calendar]"}

\* C15: a call of sendWhatsAppMessage probes the scheme once, and only after
\* the probe's answer opens one URL: the scheme URL if the answer was yes, the
\* web URL if it was no.  Either URL ends with the URL-encoded text, holds the
\* phone right after its first piece when a phone was passed and no phone
\* otherwise.  A call never has more than one step pending, opens nothing
\* more after its URL, and once it has returned or thrown it does nothing.
C15_OneProbeOneOpen ==
    /\ [](\A c \in ChainIds :
            chains[c].kind = "sendWhatsAppMessage" =>
              LET ch == chains[c] IN
              /\ Len(ch.probes) <= 1 /\ Len(ch.opened) = Len(ch.probes)
              /\ Cardinality(RequestsOf(c)) <= 1
              /\ ch.pc = "canOpenURL" =>
                    (ch.probes = <<>> /\ \E r \in RequestsOf(c) : r.op = "canOpenURL")
              /\ ch.pc = "openURL" =>
                    (Len(ch.opened) = 1 /\ \E r \in RequestsOf(c) : r.op = "openURL")
              /\ ch.pc = "done" =>
                    (RequestsOf(c) = {} /\ (ch.failure = "" => Len(ch.opened) = 1))
              /\ ch.opened # <<>> =>
                    LET url == ch.opened[1] IN
                    /\ IsSchemeUrl(url) = ch.probes[1]
                    /\ IsWebUrl(url) = ~ch.probes[1]
                    /\ TextPart(url, Len(ch.text)) = encodeURIComponent(ch.text)
                    /\ ~Raw(url)
                    /\ HasPhone(url) = (ch.env.phone # "")
                    /\ ch.env.phone # "" =>
                          (url[2] = ch.env.phone /\ Len(url) = Len(ch.text) + 3)
                    /\ ch.env.phone = "" => Len(url) = Len(ch.text) + 1)
    /\ [][\A c \in ChainIds :
            /\ chains[c].pc = "done" => chains'[c] = chains[c]
            /\ chains[c].opened # <<>> => chains'[c].opened = chains[c].opened]_vars

C15_Witness ==
    /\ \E c \in ChainIds :
         /\ chains[c].kind = "sendWhatsAppMessage" /\ chains[c].pc = "done"
         /\ chains[c].failure = "" /\ chains[c].env.phone = ""
         /\ chains[c].probes = <<FALSE>>
         /\ chains[c].opened[1][1] = "https://wa.me/?text="
    /\ \E c \in ChainIds :
         /\ chains[c].kind = "sendWhatsAppMessage" /\ chains[c].pc = "done"
         /\ chains[c].failure = "" /\ chains[c].env.phone # ""
         /\ chains[c].probes = <<FALSE>>
         /\ chains[c].opened[1][1] = "https://wa.me/"
    /\ \E c \in ChainIds :
         /\ chains[c].kind = "sendWhatsAppMessage" /\ chains[c].pc = "done"
         /\ chains[c].probes = <<TRUE>>
         /\ chains[c].opened[1][1] = "whatsapp://send?phone="

\* a text cut at its line breaks
RECURSIVE Lines(_)
Lines(t) ==
    IF \A i \in 1..Len(t) : t[i] # "\n" THEN <<t>>
    ELSE LET i == CHOOSE j \in 1..Len(t) :
                    t[j] = "\n" /\ \A k \in 1..(j - 1) : t[k] # "\n"
         IN <<SubSeq(t, 1, i - 1)>> \o Lines(SubSeq(t, i + 1, Len(t)))

Written(ls) == Cardinality({i \in 1..Len(ls) : ls[i] # <<>>})

\* C16: for every parameter, the composed text is a title line holding the
\* title between asterisks, a time line holding the start and end labels
\* around a dash, a location line holding the location or, when it is absent
\* or empty, the placeholder, and after the third line break the link line
\* when there is a link and nothing when there is none: four written lines
\* with a link, three without.
C16_ComposerLines ==
    \A c \in ChainIds :
        chains[c].kind = "buildWhatsAppText" =>
            LET p == chains[c].arg
                ls == Lines(chains[c].text)
            IN /\ Len(ls) = 4
               /\ ls[1] = <<"[calendar]", " ", "*">> \o p.title \o <<"*">>
               /\ ls[2] = <<"[clock]", " ">> \o p.start \o <<" ", "-", " ">> \o p.end
               /\ ls[3] = <<"[pin]", " ">> \o
                            (IF p.location = <<>> THEN <<"[dash]">> ELSE p.location)
               /\ p.link # "" => (ls[4] = <<"[link]", " ", p.link>> /\ Written(ls) = 4)
               /\ p.link = "" => (ls[4] = <<>> /\ Written(ls) = 3)

C16_Witness ==
    /\ \E c \in ChainIds :
         /\ chains[c].kind = "buildWhatsAppText"
         /\ chains[c].arg.link = "" /\ chains[c].arg.location = <<>>
         /\ Written(Lines(chains[c].text)) = 3
    /\ \E c \in ChainIds :
         /\ chains[c].kind = "buildWhatsAppText"
         /\ chains[c].arg.link # "" /\ chains[c].arg.location = Cafe
         /\ Written(Lines(chains[c].text)) = 4
    /\ \E c \in ChainIds :
         /\ chains[c].kind = "buildWhatsAppText"
         /\ chains[c].arg.title = <<>>

\* chain c awaits its month fetch; chain c has left loadMonthEvents
Fetching(c) == c \in ChainIds /\ chains[c].pc = "listEvents"
FetchDone(c) ==
    /\ c \in ChainIds /\ chains[c].pc = "done"
    /\ GetsOf(c) = {}
    /\ ~loadingEvents /\ logged

\* C17: if the provider answers, every chain that awaits a month fetch gets
\* to the end of loadMonthEvents, in a state in which the loading flag is
\* false and the user is logged in; the step that ends the fetch, with an
\* answer or with a failure, sets the flag to false whatever it was.
C17_FetchCompletes ==
    /\ \A c \in 1..MaxChains : Fetching(c) ~> FetchDone(c)
    /\ [][\A c \in ChainIds :
            (chains[c].pc = "listEvents" /\ chains'[c].pc # "listEvents") =>
                /\ chains'[c].pc = "done"
                /\ ~loadingEvents'
                /\ logged /\ logged'
                /\ chains'[c].failure \in {""} \cup HttpErrors]_vars

C17_Witness ==
    /\ ~loadingEvents /\ logged
    /\ \E c \in ChainIds :
         /\ chains[c].kind = "refresh" /\ chains[c].pc = "done"
         /\ chains[c].failure = ""
    /\ \E c \in ChainIds :
         /\ chains[c].kind = "onCreateEvent" /\ chains[c].pc = "done"
         /\ chains[c].failedAt = "listEvents"

\* C18: whenever the logged flag is true the token is set; a login that has
\* its token but not yet its flag exists (the token comes first); no step
\* takes the token back to null; and no fetch or creation of the App has
\* failed as "No autenticado": each month fetch and each valid submission
\* sent its request.
C18_LoggedHasToken ==
    /\ [](/\ logged => ACCESS_TOKEN \in Tokens
          /\ \A c \in ChainIds :
                /\ chains[c].pc = "signedIn" => ACCESS_TOKEN \in Tokens
                /\ chains[c].kind \in AppKinds => chains[c].failure # "No autenticado"
                /\ chains[c].pc \in {"listEvents", "createEvent"} =>
                      (logged /\ RequestsOf(c) # {}))
    /\ [][ACCESS_TOKEN # NoToken => ACCESS_TOKEN' = ACCESS_TOKEN]_vars

C18_Witness ==
    /\ logged /\ ACCESS_TOKEN \in Tokens
    /\ sent.GET >= 2 /\ sent.POST >= 1
    /\ \E c \in ChainIds : chains[c].kind = "refresh" /\ chains[c].pc = "listEvents"
    /\ \E c \in ChainIds : chains[c].kind = "onCreateEvent" /\ chains[c].pc = "done"
                              /\ chains[c].failure = ""

\* C19: in every state in which a month fetch is in flight the loading flag
\* is true, and no refresh is started while a fetch is in flight.
C19_LoadingWhileFetching ==
    /\ []((\E r \in inflight : r.op = "GET") => loadingEvents)
    /\ [][Started("refresh") => \A r \in inflight : r.op # "GET"]_vars

DeniedAlert == [title |-> "Permiso", message |-> "Acceso a contactos denegado."]
LoadedAlert(n) == [title |-> "Contactos", message |-> <<"Se cargaron", n>>]

\* what a step does to import chain c
C20_ImportStep(c) ==
    /\ (chains[c].pc = "getContacts" /\ chains'[c].pc = "done"
            /\ chains'[c].failure = "") =>
          \E n \in ContactCounts :
             /\ contactsCount' = n
             /\ chains'[c].alerts = <<LoadedAlert(n)>>
    /\ (chains[c].pc = "requestPermissions" /\ chains'[c].pc = "done"
            /\ chains'[c].failure = "") =>
          /\ contactsCount' = contactsCount
          /\ chains'[c].alerts = <<DeniedAlert>>
    /\ (chains[c].pc = "requestPermissions" /\ chains'[c].pc = "getContacts") =>
          /\ contactsCount' = contactsCount
          /\ chains'[c].alerts = <<>>
    /\ chains'[c] # chains[c] =>
          /\ ACCESS_TOKEN' = ACCESS_TOKEN
          /\ logged' = logged
          /\ items' = items
          /\ loadingEvents' = loadingEvents
          /\ formVars' = formVars
          /\ calendar' = calendar
          /\ sent' = sent

\* C20: the step in which a granted import reads the contacts sets the count
\* to the number read, whatever the count was, and reports that number; the
\* step in which permission is denied leaves the count as it is and shows the
\* notice; no step of an import changes token, logged flag, agenda, loading
\* flag or form, or sends a request; and the count changes in no other step.
C20_ImportOverwritesCount ==
    [][/\ \A c \in ChainIds :
            chains[c].kind = "importContacts" => C20_ImportStep(c)
       /\ Started("importContacts") =>
            (contactsCount' = contactsCount /\ logged' = logged /\ items' = items
             /\ ACCESS_TOKEN' = ACCESS_TOKEN /\ formVars' = formVars)
       /\ contactsCount' # contactsCount =>
            \E c \in ChainIds :
               /\ chains[c].kind = "importContacts"
               /\ chains[c].pc = "getContacts" /\ chains'[c].pc = "done"]_vars

C20_Witness ==
    /\ contactsCount = 1
    /\ \E c \in ChainIds, d \in ChainIds :
         /\ chains[c].kind = "importContacts" /\ chains[c].alerts = <<LoadedAlert(2)>>
         /\ chains[d].kind = "importContacts" /\ chains[d].alerts = <<LoadedAlert(1)>>
    /\ logged /\ ACCESS_TOKEN \in Tokens

====
